---------------------------- MODULE Spec2Model ----------------------------
(***************************************************************************)
(* Chained extended attributes (src/os/filestore/chain_xattr.cc).          *)
(*                                                                         *)
(* A logical attribute is stored as a chain of physical attributes         *)
(* name, name@1, name@2, ... on one file.  The model keeps the file's      *)
(* physical attributes (xattrs), and one action per exposed operation;     *)
(* each action runs the whole operation against the store and records      *)
(* what the caller observes (return value, buffer contents).               *)
(*                                                                         *)
(* The block-size constants live in chain_xattr.h (250 / 1000 / 2048, and  *)
(* the initial buffer of 1024 bytes in chain_getxattr_buf); the model      *)
(* uses small values that keep their order and the relation                *)
(* MAX_BLOCK_LEN = 2 * initial buffer size:                                *)
(*    SHORT_BLOCK_LEN < SHORT_LEN_THRESHOLD < initial size < MAX_BLOCK_LEN *)
(* Characters are one-character strings, a C string is a sequence of       *)
(* characters, memory holding C strings is a sequence with NUL elements.   *)
(***************************************************************************)
EXTENDS Integers, Sequences, FiniteSets, TLC

\* ------------------------------------------------------------------ bounds
\* longest logical value written by the generator of initial stores
MaxLen == 21
\* longest logical name drawn for the name codec
MaxNameLen == 3
\* largest chunk index drawn for the name codec
MaxIndex == 11
\* capacities drawn for read are 0 .. MaxLen + CapSlack
CapSlack == 2
\* most chunks of a chain whose chunks have lengths of any kind
MaxChunks == 3
\* a primitive call can be made to fail at call numbers 0 .. MaxFaultAt
MaxFaultAt == 2

\* --------------------------------------------------------- program constants
CHAIN_XATTR_MAX_NAME_LEN == 3
CHAIN_XATTR_SHORT_BLOCK_LEN == 2
CHAIN_XATTR_SHORT_LEN_THRESHOLD == 4
CHAIN_XATTR_MAX_BLOCK_LEN == 10
\* size_t size = 1024; // Initial
GETXATTR_BUF_INITIAL == 5
ENODATA == 61
ERANGE == 34
ENOMEM == 12

NUL == "NUL"
\* an indeterminate byte: a location read before anything was stored in it
UNINIT == "?"
EscChar == "@"
\* the characters logical names are drawn from
NameChars == {"a", "@", "1"}

\* errors a primitive may fail with besides not-found (EIO, EPERM)
InjectErrs == {-5, -1}
NoFault == [at |-> -1, err |-> 0]
Faults == {NoFault} \cup [at : 0..MaxFaultAt, err : InjectErrs]

\* ------------------------------------------------------------- name codec
Digit(d) == <<"0", "1", "2", "3", "4", "5", "6", "7", "8", "9">>[d + 1]

RECURSIVE DecStr(_)
\* snprintf("%d") of a non-negative int
DecStr(i) == IF i < 10 THEN <<Digit(i)>>
             ELSE DecStr(i \div 10) \o <<Digit(i % 10)>>

\* char raw_name[CHAIN_XATTR_MAX_NAME_LEN * 2 + 16]
RawNameSize == CHAIN_XATTR_MAX_NAME_LEN * 2 + 16

\* get_raw_xattr_name copying every character as it is
EscapeName_noesc(name) == name

RECURSIVE EscapeName(_)
\* the while loop of get_raw_xattr_name: every '@' is written twice
EscapeName(name) ==
  IF name = <<>> THEN <<>>
  ELSE (IF Head(name) = EscChar THEN <<EscChar, EscChar>> ELSE <<Head(name)>>)
       \o EscapeName(Tail(name))

\* the three ceph_assert of get_raw_xattr_name hold
get_raw_xattr_name_fits(name, i, raw_len) ==
  LET pos == Len(EscapeName(name))
  IN /\ (name # <<>> => pos < raw_len - 1)
     /\ (i # 0 => 1 + Len(DecStr(i)) < raw_len - pos)

\* the physical key of chunk i of a logical name
get_raw_xattr_name(name, i) ==
  EscapeName(name) \o (IF i = 0 THEN <<>> ELSE <<EscChar>> \o DecStr(i))

\* *p of a char pointer p into memory mem (1-based); past the modelled
\* memory the first byte found is a NUL
At(mem, p) == IF p <= Len(mem) THEN mem[p] ELSE NUL

RECURSIVE translate_raw_loop(_, _, _, _)
\* the while loop of translate_raw_name, raw_name pointing at mem[p], with
\* `out` the bytes stored in name so far (pos = Len(out)) and `past` set once
\* raw_name has stepped over a NUL
translate_raw_loop(mem, p, out, past) ==
  LET c == At(mem, p)
      c2 == At(mem, p + 1)
  IN IF c = NUL
       THEN [name |-> out, pos |-> Len(out), is_first |-> TRUE, past |-> past]
     ELSE IF c = EscChar
       THEN IF c2 = NUL
              \* break leaves the switch only: name[pos] is not stored, and
              \* pos, name and raw_name all advance, raw_name over the NUL
              THEN translate_raw_loop(mem, p + 2, out \o <<UNINIT>>, TRUE)
            ELSE IF c2 # EscChar
              THEN [name |-> out, pos |-> Len(out), is_first |-> FALSE,
                    past |-> past]
            ELSE translate_raw_loop(mem, p + 2, out \o <<EscChar>>, past)
     ELSE translate_raw_loop(mem, p + 1, out \o <<c>>, past)

\* translate_raw_name(raw_name = &mem[p], name, name_len, &is_first)
translate_raw_name(mem, p) == translate_raw_loop(mem, p, <<>>, FALSE)

\* ceph_assert(pos < name_len) holds in every round of translate_raw_name
translate_raw_name_fits(mem, p, name_len) ==
  translate_raw_name(mem, p).pos < name_len

\* ------------------------------------------------- the physical attributes
\* xs is the file's attribute list in the order the primitive list reports
\* it: a sequence of [key, val] without repeated keys
HasKey(xs, k) == \E j \in 1..Len(xs) : xs[j].key = k
ValOf(xs, k) == xs[CHOOSE j \in 1..Len(xs) : xs[j].key = k].val
DropKey(xs, k) == SelectSeq(xs, LAMBDA e : e.key # k)

\* primitive call number n of the running operation fails with flt.err
Injected(flt, n) == flt.at = n

\* get(key, buffer, capacity): capacity 0 reports the length only, a
\* non-zero capacity below the stored length is buffer-too-small
sys_getxattr(xs, raw_name, size, flt, n) ==
  IF Injected(flt, n) THEN [r |-> flt.err, data |-> <<>>]
  ELSE IF ~HasKey(xs, raw_name) THEN [r |-> -ENODATA, data |-> <<>>]
  ELSE LET v == ValOf(xs, raw_name)
       IN IF size = 0 THEN [r |-> Len(v), data |-> <<>>]
          ELSE IF Len(v) > size THEN [r |-> -ERANGE, data |-> <<>>]
          ELSE [r |-> Len(v), data |-> v]

sys_fgetxattr(xs, raw_name, size, flt, n) ==
  sys_getxattr(xs, raw_name, size, flt, n)

\* remove(key)
sys_removexattr(xs, raw_name, flt, n) ==
  IF Injected(flt, n) THEN [r |-> flt.err, xs |-> xs]
  ELSE IF ~HasKey(xs, raw_name) THEN [r |-> -ENODATA, xs |-> xs]
  ELSE [r |-> 0, xs |-> DropKey(xs, raw_name)]

sys_fremovexattr(xs, raw_name, flt, n) == sys_removexattr(xs, raw_name, flt, n)

RECURSIVE KeyStream(_)
\* the keys back to back, each with its terminating NUL
KeyStream(xs) ==
  IF xs = <<>> THEN <<>> ELSE Head(xs).key \o <<NUL>> \o KeyStream(Tail(xs))

\* list(buffer, capacity): capacity 0 reports the size needed
sys_listxattr(xs, size, flt, n) ==
  LET all == KeyStream(xs)
  IN IF Injected(flt, n) THEN [r |-> flt.err, data |-> <<>>]
     ELSE IF size = 0 THEN [r |-> Len(all), data |-> <<>>]
     ELSE IF Len(all) > size THEN [r |-> -ERANGE, data |-> <<>>]
     ELSE [r |-> Len(all), data |-> all]

sys_flistxattr(xs, size, flt, n) == sys_listxattr(xs, size, flt, n)

BlockLens == {CHAIN_XATTR_MAX_BLOCK_LEN, CHAIN_XATTR_SHORT_BLOCK_LEN}

\* ------------------------------------------------------- length-only probe
RECURSIVE getxattr_len_loop_maxonly(_, _, _, _, _)
\* getxattr_len going on only after a chunk of CHAIN_XATTR_MAX_BLOCK_LEN
getxattr_len_loop_maxonly(xs, name, flt, i, total) ==
  LET r == sys_getxattr(xs, get_raw_xattr_name(name, i), 0, flt, i).r
  IN IF i = 0 /\ r < 0 THEN [ret |-> r, calls |-> i + 1]
     ELSE IF r < 0 THEN [ret |-> total, calls |-> i + 1]
     ELSE IF r = CHAIN_XATTR_MAX_BLOCK_LEN
       THEN getxattr_len_loop_maxonly(xs, name, flt, i + 1, total + r)
     ELSE [ret |-> total + r, calls |-> i + 1]

RECURSIVE getxattr_len_loop(_, _, _, _, _)
\* one round of the do-while of getxattr_len
getxattr_len_loop(xs, name, flt, i, total) ==
  LET r == sys_getxattr(xs, get_raw_xattr_name(name, i), 0, flt, i).r
  IN IF i = 0 /\ r < 0 THEN [ret |-> r, calls |-> i + 1]
     ELSE IF r < 0 THEN [ret |-> total, calls |-> i + 1]
     ELSE IF r \in BlockLens
       THEN getxattr_len_loop(xs, name, flt, i + 1, total + r)
     ELSE [ret |-> total + r, calls |-> i + 1]

getxattr_len(xs, name, flt) == getxattr_len_loop(xs, name, flt, 0, 0)

RECURSIVE chain_fgetxattr_len_loop(_, _, _, _, _)
chain_fgetxattr_len_loop(xs, name, flt, i, total) ==
  LET r == sys_fgetxattr(xs, get_raw_xattr_name(name, i), 0, flt, i).r
  IN IF i = 0 /\ r < 0 THEN [ret |-> r, calls |-> i + 1]
     ELSE IF r < 0 THEN [ret |-> total, calls |-> i + 1]
     ELSE IF r \in BlockLens
       THEN chain_fgetxattr_len_loop(xs, name, flt, i + 1, total + r)
     ELSE [ret |-> total + r, calls |-> i + 1]

chain_fgetxattr_len(xs, name, flt) ==
  chain_fgetxattr_len_loop(xs, name, flt, 0, 0)

\* ------------------------------------------------------------ bounded read
\* chain_getxattr without the probe for another chunk
chain_getxattr_tail_noprobe(xs, name, flt, i, pos, chunk_size, buf) ==
  [ret |-> pos, buf |-> buf, calls |-> i, probed |-> FALSE]

\* chain_getxattr taking any non-zero result of the probe, an error too, for
\* another chunk: if (r)
chain_getxattr_tail_anyr(xs, name, flt, i, pos, chunk_size, buf) ==
  IF chunk_size \in BlockLens
    THEN LET r == sys_getxattr(xs, get_raw_xattr_name(name, i), 0, flt, i).r
         IN [ret |-> IF r # 0 THEN -ERANGE ELSE pos, buf |-> buf,
             calls |-> i + 1, probed |-> TRUE]
  ELSE [ret |-> pos, buf |-> buf, calls |-> i, probed |-> FALSE]

\* chain_getxattr taking an empty next chunk for more data: if (r >= 0)
chain_getxattr_tail_geq(xs, name, flt, i, pos, chunk_size, buf) ==
  IF chunk_size \in BlockLens
    THEN LET r == sys_getxattr(xs, get_raw_xattr_name(name, i), 0, flt, i).r
         IN [ret |-> IF r >= 0 THEN -ERANGE ELSE pos, buf |-> buf,
             calls |-> i + 1, probed |-> TRUE]
  ELSE [ret |-> pos, buf |-> buf, calls |-> i, probed |-> FALSE]

\* the block after the do-while of chain_getxattr, entered with r >= 0:
\* i is the next chunk index, chunk_size the capacity handed to the last get
chain_getxattr_tail(xs, name, flt, i, pos, chunk_size, buf) ==
  IF chunk_size \in BlockLens
    THEN LET r == sys_getxattr(xs, get_raw_xattr_name(name, i), 0, flt, i).r
         IN [ret |-> IF r > 0 THEN -ERANGE ELSE pos, buf |-> buf,
             calls |-> i + 1, probed |-> TRUE]
  ELSE [ret |-> pos, buf |-> buf, calls |-> i, probed |-> FALSE]

RECURSIVE chain_getxattr_loop(_, _, _, _, _, _, _)
\* one round of the do-while of chain_getxattr; buf is what val holds
chain_getxattr_loop(xs, name, flt, i, pos, size, buf) ==
  LET chunk_size == size
      g == sys_getxattr(xs, get_raw_xattr_name(name, i), chunk_size, flt, i)
      r == g.r
  IN IF i # 0 /\ r = -ENODATA
       THEN [ret |-> pos, buf |-> buf, calls |-> i + 1, probed |-> FALSE]
     ELSE IF r < 0
       THEN [ret |-> r, buf |-> buf, calls |-> i + 1, probed |-> FALSE]
     ELSE IF size - r # 0 /\ r \in BlockLens
       THEN chain_getxattr_loop(xs, name, flt, i + 1, pos + r, size - r,
                                buf \o g.data)
     ELSE chain_getxattr_tail(xs, name, flt, i + 1, pos + r, chunk_size,
                              buf \o g.data)

chain_getxattr(xs, name, size, flt) ==
  IF size = 0
    THEN LET l == getxattr_len(xs, name, flt)
         IN [ret |-> l.ret, buf |-> <<>>, calls |-> l.calls, probed |-> FALSE]
  ELSE chain_getxattr_loop(xs, name, flt, 0, 0, size, <<>>)

chain_fgetxattr_tail(xs, name, flt, i, pos, chunk_size, buf) ==
  IF chunk_size \in BlockLens
    THEN LET r == sys_fgetxattr(xs, get_raw_xattr_name(name, i), 0, flt, i).r
         IN [ret |-> IF r > 0 THEN -ERANGE ELSE pos, buf |-> buf,
             calls |-> i + 1, probed |-> TRUE]
  ELSE [ret |-> pos, buf |-> buf, calls |-> i, probed |-> FALSE]

RECURSIVE chain_fgetxattr_loop(_, _, _, _, _, _, _)
chain_fgetxattr_loop(xs, name, flt, i, pos, size, buf) ==
  LET chunk_size == size
      g == sys_fgetxattr(xs, get_raw_xattr_name(name, i), chunk_size, flt, i)
      r == g.r
  IN IF i # 0 /\ r = -ENODATA
       THEN [ret |-> pos, buf |-> buf, calls |-> i + 1, probed |-> FALSE]
     ELSE IF r < 0
       THEN [ret |-> r, buf |-> buf, calls |-> i + 1, probed |-> FALSE]
     ELSE IF size - r # 0 /\ r \in BlockLens
       THEN chain_fgetxattr_loop(xs, name, flt, i + 1, pos + r, size - r,
                                 buf \o g.data)
     ELSE chain_fgetxattr_tail(xs, name, flt, i + 1, pos + r, chunk_size,
                               buf \o g.data)

chain_fgetxattr(xs, name, size, flt) ==
  IF size = 0
    THEN LET l == chain_fgetxattr_len(xs, name, flt)
         IN [ret |-> l.ret, buf |-> <<>>, calls |-> l.calls, probed |-> FALSE]
  ELSE chain_fgetxattr_loop(xs, name, flt, 0, 0, size, <<>>)

\* ------------------------------------------------------ growing-buffer read
RECURSIVE chain_getxattr_buf_loop_absentzero(_, _, _, _, _, _, _)
\* chain_getxattr_buf turning not-found into an empty result
chain_getxattr_buf_loop_absentzero(xs, name, flt, bp_null, bp, size, tries) ==
  LET g == chain_getxattr(xs, name, size, flt)
      r == g.ret
  IN IF r > 0
       THEN [ret |-> r, bp |-> IF bp_null THEN bp ELSE SubSeq(g.buf, 1, r),
             size |-> size, tries |-> tries + 1]
     ELSE IF r = 0 \/ r = -ENODATA
       THEN [ret |-> 0, bp |-> bp, size |-> size, tries |-> tries + 1]
     ELSE IF r = -ERANGE
       THEN chain_getxattr_buf_loop_absentzero(xs, name, flt, bp_null, bp,
                                               size * 2, tries + 1)
     ELSE [ret |-> r, bp |-> bp, size |-> size, tries |-> tries + 1]

RECURSIVE chain_getxattr_buf_loop(_, _, _, _, _, _, _)
\* one round of while (1) of chain_getxattr_buf: bp_null is bp == nullptr,
\* bp what *bp holds, tries the rounds done before this one
chain_getxattr_buf_loop(xs, name, flt, bp_null, bp, size, tries) ==
  LET g == chain_getxattr(xs, name, size, flt)
      r == g.ret
  IN IF r > 0
       THEN [ret |-> r, bp |-> IF bp_null THEN bp ELSE SubSeq(g.buf, 1, r),
             size |-> size, tries |-> tries + 1]
     ELSE IF r = 0
       THEN [ret |-> 0, bp |-> bp, size |-> size, tries |-> tries + 1]
     ELSE IF r = -ERANGE
       THEN chain_getxattr_buf_loop(xs, name, flt, bp_null, bp, size * 2,
                                    tries + 1)
     ELSE [ret |-> r, bp |-> bp, size |-> size, tries |-> tries + 1]

chain_getxattr_buf(xs, name, flt, bp_null, bp) ==
  chain_getxattr_buf_loop(xs, name, flt, bp_null, bp, GETXATTR_BUF_INITIAL, 0)

\* -------------------------------------------------------- chunk-size policy
get_xattr_block_size(size) ==
  IF size <= CHAIN_XATTR_SHORT_LEN_THRESHOLD
    THEN CHAIN_XATTR_SHORT_BLOCK_LEN
  ELSE CHAIN_XATTR_MAX_BLOCK_LEN

\* ------------------------------------------------------------------ remove
\* chain_removexattr leaving after the first chunk: while (r < 0)
chain_removexattr_loop_first(xs, name, flt, i) ==
  LET rm == sys_removexattr(xs, get_raw_xattr_name(name, i), flt, i)
  IN IF i = 0 /\ rm.r < 0 THEN [ret |-> rm.r, xs |-> rm.xs, calls |-> i + 1]
     ELSE [ret |-> 0, xs |-> rm.xs, calls |-> i + 1]

RECURSIVE chain_removexattr_loop_anyerr(_, _, _, _)
\* chain_removexattr returning the error of whichever remove failed
chain_removexattr_loop_anyerr(xs, name, flt, i) ==
  LET rm == sys_removexattr(xs, get_raw_xattr_name(name, i), flt, i)
  IN IF rm.r < 0 THEN [ret |-> rm.r, xs |-> rm.xs, calls |-> i + 1]
     ELSE chain_removexattr_loop_anyerr(rm.xs, name, flt, i + 1)

RECURSIVE chain_removexattr_loop_noesc(_, _, _, _)
\* chain_removexattr building its keys from the name as it is, no '@' doubled
chain_removexattr_loop_noesc(xs, name, flt, i) ==
  LET raw_name == name \o (IF i = 0 THEN <<>> ELSE <<EscChar>> \o DecStr(i))
      rm == sys_removexattr(xs, raw_name, flt, i)
  IN IF i = 0 /\ rm.r < 0 THEN [ret |-> rm.r, xs |-> rm.xs, calls |-> i + 1]
     ELSE IF rm.r >= 0 THEN chain_removexattr_loop_noesc(rm.xs, name, flt, i + 1)
     ELSE [ret |-> 0, xs |-> rm.xs, calls |-> i + 1]

RECURSIVE chain_removexattr_loop(_, _, _, _)
\* one round of the do-while of chain_removexattr
chain_removexattr_loop(xs, name, flt, i) ==
  LET rm == sys_removexattr(xs, get_raw_xattr_name(name, i), flt, i)
  IN IF i = 0 /\ rm.r < 0 THEN [ret |-> rm.r, xs |-> rm.xs, calls |-> i + 1]
     ELSE IF rm.r >= 0 THEN chain_removexattr_loop(rm.xs, name, flt, i + 1)
     ELSE [ret |-> 0, xs |-> rm.xs, calls |-> i + 1]

chain_removexattr(xs, name, flt) == chain_removexattr_loop(xs, name, flt, 0)

RECURSIVE chain_fremovexattr_loop(_, _, _, _)
chain_fremovexattr_loop(xs, name, flt, i) ==
  LET rm == sys_fremovexattr(xs, get_raw_xattr_name(name, i), flt, i)
  IN IF i = 0 /\ rm.r < 0 THEN [ret |-> rm.r, xs |-> rm.xs, calls |-> i + 1]
     ELSE IF rm.r >= 0 THEN chain_fremovexattr_loop(rm.xs, name, flt, i + 1)
     ELSE [ret |-> 0, xs |-> rm.xs, calls |-> i + 1]

chain_fremovexattr(xs, name, flt) == chain_fremovexattr_loop(xs, name, flt, 0)

\* -------------------------------------------------------------------- list
RECURSIVE StrLen(_, _)
\* strlen(&mem[p])
StrLen(mem, p) == IF At(mem, p) = NUL THEN 0 ELSE 1 + StrLen(mem, p + 1)

RECURSIVE chain_listxattr_loop_all(_, _, _, _, _)
\* chain_listxattr copying the name of every key, first chunk or not
chain_listxattr_loop_all(mem, p, end, dest, len) ==
  IF ~(p <= end) THEN [ret |-> Len(dest), names |-> dest]
  ELSE LET attr_len == StrLen(mem, p)
           t == translate_raw_name(mem, p)
           name_len == t.pos
       IN IF Len(dest) + name_len > len
            THEN [ret |-> -ERANGE, names |-> dest]
          ELSE chain_listxattr_loop_all(mem, p + attr_len + 1, end,
                                        dest \o t.name \o <<NUL>>, len)

RECURSIVE chain_listxattr_loop(_, _, _, _, _)
\* while (p < end) of chain_listxattr: p and end are 1-based positions in
\* full_buf (mem), dest the bytes stored from names on, len the capacity
chain_listxattr_loop(mem, p, end, dest, len) ==
  IF ~(p <= end) THEN [ret |-> Len(dest), names |-> dest]
  ELSE LET attr_len == StrLen(mem, p)
           t == translate_raw_name(mem, p)
           name_len == t.pos
       IN IF t.is_first
            THEN IF Len(dest) + name_len > len
                   THEN [ret |-> -ERANGE, names |-> dest]
                 ELSE chain_listxattr_loop(mem, p + attr_len + 1, end,
                                           dest \o t.name \o <<NUL>>, len)
          ELSE chain_listxattr_loop(mem, p + attr_len + 1, end, dest, len)

\* nomem: malloc returns a null pointer; junk: what the part of full_buf
\* the primitive did not fill happens to hold
chain_listxattr(xs, len, flt, nomem, junk) ==
  IF len = 0
    THEN [ret |-> sys_listxattr(xs, 0, flt, 0).r * 2, names |-> <<>>]
  ELSE LET r0 == sys_listxattr(xs, 0, flt, 0).r
           total_len == r0 * 2
           l == sys_listxattr(xs, total_len, flt, 1)
       IN IF r0 < 0 THEN [ret |-> r0, names |-> <<>>]
          ELSE IF nomem THEN [ret |-> -ENOMEM, names |-> <<>>]
          ELSE IF l.r < 0 THEN [ret |-> l.r, names |-> <<>>]
          ELSE chain_listxattr_loop(l.data \o junk, 1, l.r, <<>>, len)

RECURSIVE chain_flistxattr_loop(_, _, _, _, _)
chain_flistxattr_loop(mem, p, end, dest, len) ==
  IF ~(p <= end) THEN [ret |-> Len(dest), names |-> dest]
  ELSE LET attr_len == StrLen(mem, p)
           t == translate_raw_name(mem, p)
           name_len == t.pos
       IN IF t.is_first
            THEN IF Len(dest) + name_len > len
                   THEN [ret |-> -ERANGE, names |-> dest]
                 ELSE chain_flistxattr_loop(mem, p + attr_len + 1, end,
                                            dest \o t.name \o <<NUL>>, len)
          ELSE chain_flistxattr_loop(mem, p + attr_len + 1, end, dest, len)

chain_flistxattr(xs, len, flt, nomem, junk) ==
  IF len = 0
    THEN [ret |-> sys_flistxattr(xs, 0, flt, 0).r * 2, names |-> <<>>]
  ELSE LET r0 == sys_flistxattr(xs, 0, flt, 0).r
           total_len == r0 * 2
           l == sys_flistxattr(xs, total_len, flt, 1)
       IN IF r0 < 0 THEN [ret |-> r0, names |-> <<>>]
          ELSE IF nomem THEN [ret |-> -ENOMEM, names |-> <<>>]
          ELSE IF l.r < 0 THEN [ret |-> l.r, names |-> <<>>]
          ELSE chain_flistxattr_loop(l.data \o junk, 1, l.r, <<>>, len)

\* ------------------------------------------------- the stores a run starts in
\* a value of L distinct bytes base+1 .. base+L
Value(L, base) == [j \in 1..L |-> base + j]

RECURSIVE WriteChain(_, _, _, _)
\* the chain the write path leaves for val: chunks of block_len bytes, the
\* last one possibly shorter, an empty value as one empty chunk
WriteChain(name, val, block_len, i) ==
  IF Len(val) <= block_len
    THEN <<[key |-> get_raw_xattr_name(name, i), val |-> val]>>
  ELSE <<[key |-> get_raw_xattr_name(name, i),
          val |-> SubSeq(val, 1, block_len)]>>
       \o WriteChain(name, SubSeq(val, block_len + 1, Len(val)), block_len, i + 1)

NameA == <<"a">>
\* a logical name that looks like a chunk key of NameA
NameB == <<"a", "@", "1">>
StoreNames == {NameA, NameB}
\* a physical key no encode produces: it ends in a lone '@'
ForeignKey == <<"b", "@">>

WellFormedChains(name, base) ==
  { WriteChain(name, Value(L, base), b, 0) : L \in 0..MaxLen, b \in BlockLens }

\* a chain of 2 blocks + 1 whose head was rewritten with a shorter value (n
\* chunks kept from the new value) while the old tail stayed behind
StaleChains(name, base) ==
  UNION { { LET was == WriteChain(name, Value(2 * b + 1, base), b, 0)
                now == WriteChain(name, Value(L, base + 50), b, 0)
            IN now \o SubSeq(was, Len(now) + 1, Len(was)) : L \in {1, b} }
          : b \in BlockLens }

\* a chain of 2 blocks + 1 that lost chunk 1
GapChains(name, base) ==
  { LET c == WriteChain(name, Value(2 * b + 1, base), b, 0)
    IN <<c[1], c[3]>> : b \in BlockLens }

\* the lengths a chunk of any kind may have: empty, shorter than a block,
\* a short block, between the two block sizes, a long block
ChunkLens == {0, 1, CHAIN_XATTR_SHORT_BLOCK_LEN, GETXATTR_BUF_INITIAL + 1,
              CHAIN_XATTR_MAX_BLOCK_LEN}

RECURSIVE AnyChains(_, _, _)
\* chunks i .. i+n-1 of a name with lengths of any kind, as left behind by
\* writes of different sizes and block sizes that were not cleaned up
AnyChains(name, i, n) ==
  IF n = 0 THEN {<<>>}
  ELSE { <<[key |-> get_raw_xattr_name(name, i), val |-> Value(l, 30 * i)]>>
           \o rest : l \in ChunkLens, rest \in AnyChains(name, i + 1, n - 1) }

ChainsA == {<<>>} \cup WellFormedChains(NameA, 0) \cup StaleChains(NameA, 0)
             \cup GapChains(NameA, 0)

\* what else the file holds, before (pre) and after (post) the chain of NameA
Others ==
  { [pre |-> <<>>, post |-> <<>>],
    [pre |-> <<>>, post |-> WriteChain(NameB, Value(1, 100), CHAIN_XATTR_SHORT_BLOCK_LEN, 0)],
    [pre |-> WriteChain(NameB, Value(CHAIN_XATTR_SHORT_BLOCK_LEN + 1, 100),
                        CHAIN_XATTR_SHORT_BLOCK_LEN, 0),
     post |-> <<>>],
    [pre |-> <<[key |-> ForeignKey, val |-> <<200>>]>>,
     post |-> WriteChain(NameB, Value(1, 100), CHAIN_XATTR_SHORT_BLOCK_LEN, 0)] }

\* a file holding nothing but keys that end in a lone '@'
LoneEscChars == <<"b", "c", "d", "e", "f">>
LoneEscStore ==
  [j \in 1..Len(LoneEscChars) |->
     [key |-> <<LoneEscChars[j], EscChar>>, val |-> <<200 + j>>]]

InitStores == { o.pre \o c \o o.post : c \in ChainsA, o \in Others }
                \cup {LoneEscStore}
                \cup UNION { AnyChains(NameA, 0, n) : n \in 1..MaxChunks }

\* ----------------------------------------------------- what the caller passes
Capacities == 0..(MaxLen + CapSlack)
\* two-step sizing: the caller also passes what the length probe returned
CapacitiesOf(xs, name) ==
  LET n == getxattr_len(xs, name, NoFault).ret
  IN Capacities \cup (IF n > 0 THEN {n} ELSE {})
\* longest list buffer passed
MaxListLen == 8
ListLens == 0..MaxListLen
\* two-step sizing: the caller also passes what a call with len 0 returned
ListLensOf(xs) ==
  ListLens \cup {chain_listxattr(xs, 0, NoFault, FALSE, <<>>).ret}
\* what *bp holds on entry of chain_getxattr_buf
BpInputs == {<<>>, <<99>>}
\* bytes malloc'ed memory may hold beyond what the primitive list filled
Junks == {<<>>, <<"a", NUL>>}
\* how the environment behaves during one call
Envs == [flt : Faults, nomem : {FALSE}, junk : {<<>>}]
          \cup [flt : {NoFault}, nomem : {TRUE}, junk : {<<>>}]
          \cup [flt : {NoFault}, nomem : {FALSE}, junk : Junks]

\* -------------------------------------------------------------------- state
VARIABLES
  xattrs,    \* the file's physical attributes, in the primitive's list order
  old,       \* xattrs when the last call started
  call,      \* the last call: operation and arguments
  ret,       \* its return value
  buf,       \* the bytes it stored through the caller's pointer (val, names)
  bp,        \* *bp after chain_getxattr_buf
  calls,     \* primitive calls it issued
  is_first,  \* *is_first after translate_raw_name
  past,      \* translate_raw_name moved raw_name over a terminating NUL
  rd,        \* a chain_getxattr in progress, one primitive call per step
  rm         \* a chain_removexattr in progress, one primitive call per step

vars == <<xattrs, old, call, ret, buf, bp, calls, is_first, past, rd, rm>>

\* no chain_getxattr in progress
IdleRd == [pc |-> "idle", name |-> <<>>, cap |-> 0, i |-> 0, pos |-> 0,
           size |-> 0, chunk_size |-> 0, buf |-> <<>>, ret |-> 0]
\* no chain_removexattr in progress
IdleRm == [pc |-> "idle", name |-> <<>>, i |-> 0, ret |-> 0]

Call(op, fd, name, size, env, bp_null, bp_in) ==
  [op |-> op, fd |-> fd, name |-> name, size |-> size, env |-> env,
   bp_null |-> bp_null, bp_in |-> bp_in]

NoEnv == [flt |-> NoFault, nomem |-> FALSE, junk |-> <<>>]

Init ==
  /\ xattrs \in InitStores
  /\ old = xattrs
  /\ call = Call("idle", FALSE, <<>>, 0, NoEnv, TRUE, <<>>)
  /\ ret = 0
  /\ buf = <<>>
  /\ bp = <<>>
  /\ calls = 0
  /\ is_first = FALSE
  /\ past = FALSE
  /\ rd = IdleRd
  /\ rm = IdleRm

\* chain_getxattr(fn, name, 0, 0) used as the length probe, and
\* chain_getxattr(fn, name, val, size)
ChainGetxattr ==
  /\ call.op = "idle"
  /\ \E name \in StoreNames, flt \in Faults :
    \E size \in CapacitiesOf(xattrs, name) :
    LET g == chain_getxattr(xattrs, name, size, flt)
    IN /\ call' = Call("getxattr", FALSE, name, size,
                       [NoEnv EXCEPT !.flt = flt], TRUE, <<>>)
       /\ ret' = g.ret
       /\ buf' = g.buf
       /\ calls' = g.calls
       /\ old' = xattrs
       /\ UNCHANGED <<xattrs, bp, is_first, past, rd, rm>>

ChainFgetxattr ==
  /\ call.op = "idle"
  /\ \E name \in StoreNames, flt \in Faults :
    \E size \in CapacitiesOf(xattrs, name) :
    LET g == chain_fgetxattr(xattrs, name, size, flt)
    IN /\ call' = Call("getxattr", TRUE, name, size,
                       [NoEnv EXCEPT !.flt = flt], TRUE, <<>>)
       /\ ret' = g.ret
       /\ buf' = g.buf
       /\ calls' = g.calls
       /\ old' = xattrs
       /\ UNCHANGED <<xattrs, bp, is_first, past, rd, rm>>

ChainGetxattrBuf ==
  /\ call.op = "idle"
  /\ \E name \in StoreNames, flt \in Faults, bp_null \in BOOLEAN, bp_in \in BpInputs :
    LET g == chain_getxattr_buf(xattrs, name, flt, bp_null, bp_in)
    IN /\ bp_null => bp_in = <<>>
       /\ call' = Call("getxattr_buf", FALSE, name, g.size,
                       [NoEnv EXCEPT !.flt = flt], bp_null, bp_in)
       /\ ret' = g.ret
       /\ bp' = g.bp
       /\ calls' = g.tries
       /\ old' = xattrs
       /\ UNCHANGED <<xattrs, buf, is_first, past, rd, rm>>

ChainRemovexattr ==
  /\ call.op = "idle"
  /\ \E name \in StoreNames, flt \in Faults :
    LET g == chain_removexattr(xattrs, name, flt)
    IN /\ call' = Call("removexattr", FALSE, name, 0,
                       [NoEnv EXCEPT !.flt = flt], TRUE, <<>>)
       /\ ret' = g.ret
       /\ xattrs' = g.xs
       /\ calls' = g.calls
       /\ old' = xattrs
       /\ UNCHANGED <<buf, bp, is_first, past, rd, rm>>

ChainFremovexattr ==
  /\ call.op = "idle"
  /\ \E name \in StoreNames, flt \in Faults :
    LET g == chain_fremovexattr(xattrs, name, flt)
    IN /\ call' = Call("removexattr", TRUE, name, 0,
                       [NoEnv EXCEPT !.flt = flt], TRUE, <<>>)
       /\ ret' = g.ret
       /\ xattrs' = g.xs
       /\ calls' = g.calls
       /\ old' = xattrs
       /\ UNCHANGED <<buf, bp, is_first, past, rd, rm>>

ChainListxattr ==
  /\ call.op = "idle"
  /\ \E len \in ListLensOf(xattrs), env \in Envs :
    LET g == chain_listxattr(xattrs, len, env.flt, env.nomem, env.junk)
    IN /\ call' = Call("listxattr", FALSE, <<>>, len, env, TRUE, <<>>)
       /\ ret' = g.ret
       /\ buf' = g.names
       /\ old' = xattrs
       /\ UNCHANGED <<xattrs, bp, calls, is_first, past, rd, rm>>

ChainFlistxattr ==
  /\ call.op = "idle"
  /\ \E len \in ListLensOf(xattrs), env \in Envs :
    LET g == chain_flistxattr(xattrs, len, env.flt, env.nomem, env.junk)
    IN /\ call' = Call("listxattr", TRUE, <<>>, len, env, TRUE, <<>>)
       /\ ret' = g.ret
       /\ buf' = g.names
       /\ old' = xattrs
       /\ UNCHANGED <<xattrs, bp, calls, is_first, past, rd, rm>>

\* the caller has looked at the result and dropped its buffers
Return ==
  /\ call.op # "idle"
  /\ call' = Call("idle", FALSE, <<>>, 0, NoEnv, TRUE, <<>>)
  /\ ret' = 0
  /\ buf' = <<>>
  /\ bp' = <<>>
  /\ calls' = 0
  /\ is_first' = FALSE
  /\ past' = FALSE
  /\ UNCHANGED <<rd, rm>>
  /\ old' = xattrs
  /\ UNCHANGED xattrs

Next ==
  \/ ChainGetxattr
  \/ ChainFgetxattr
  \/ ChainGetxattrBuf
  \/ ChainRemovexattr
  \/ ChainFremovexattr
  \/ ChainListxattr
  \/ ChainFlistxattr
  \/ Return

Spec == Init /\ [][Next]_vars

\* ------------------------------------------------------ the name codec run
\* the logical names the codec is run on: all strings over NameChars of at
\* most MaxNameLen characters
RECURSIVE NamesOfLen(_)
NamesOfLen(n) ==
  IF n = 0 THEN {<<>>}
  ELSE { <<c>> \o w : c \in NameChars, w \in NamesOfLen(n - 1) }

CodecNames == UNION { NamesOfLen(n) : n \in 0..MaxNameLen }

\* get_raw_xattr_name(name, i, raw_name, sizeof(raw_name)); a failed
\* ceph_assert aborts the process
GetRawXattrName ==
  /\ call.op = "idle"
  /\ \E name \in CodecNames, i \in 0..MaxIndex :
       /\ get_raw_xattr_name_fits(name, i, RawNameSize)
       /\ call' = Call("get_raw_xattr_name", FALSE, name, i, NoEnv, TRUE, <<>>)
       /\ buf' = get_raw_xattr_name(name, i)
       /\ ret' = 0
       /\ old' = xattrs
       /\ UNCHANGED <<xattrs, bp, calls, is_first, past, rd, rm>>

\* translate_raw_name on the key get_raw_xattr_name has just produced
TranslateRawName ==
  /\ call.op = "get_raw_xattr_name"
  /\ translate_raw_name_fits(buf \o <<NUL>>, 1, RawNameSize)
  /\ LET t == translate_raw_name(buf \o <<NUL>>, 1)
     IN /\ call' = [call EXCEPT !.op = "translate_raw_name"]
        /\ buf' = t.name
        /\ ret' = t.pos
        /\ is_first' = t.is_first
        /\ past' = t.past
        /\ UNCHANGED <<xattrs, old, bp, calls, rd, rm>>

\* the physical keys the decoder is run on: any string a file's attribute may
\* be called, written by this layer or not
RawKeys == CodecNames \ {<<>>}

\* translate_raw_name on a key of the primitive list; the key's NUL is
\* followed by whatever the memory behind it holds
TranslateRawKey ==
  /\ call.op = "idle"
  /\ \E key \in RawKeys, junk \in Junks :
       LET mem == key \o <<NUL>> \o junk
           t == translate_raw_name(mem, 1)
       IN /\ translate_raw_name_fits(mem, 1, RawNameSize)
          /\ call' = Call("translate_raw_key", FALSE, key, 0,
                          [NoEnv EXCEPT !.junk = junk], TRUE, <<>>)
          /\ buf' = t.name
          /\ ret' = t.pos
          /\ is_first' = t.is_first
          /\ past' = t.past
          /\ old' = xattrs
          /\ UNCHANGED <<xattrs, bp, calls, rd, rm>>

InitCodec ==
  /\ xattrs = <<>>
  /\ old = xattrs
  /\ call = Call("idle", FALSE, <<>>, 0, NoEnv, TRUE, <<>>)
  /\ ret = 0
  /\ buf = <<>>
  /\ bp = <<>>
  /\ calls = 0
  /\ is_first = FALSE
  /\ past = FALSE
  /\ rd = IdleRd
  /\ rm = IdleRm

NextCodec ==
  \/ GetRawXattrName
  \/ TranslateRawName
  \/ TranslateRawKey
  \/ Return

SpecCodec == InitCodec /\ [][NextCodec]_vars

\* ------------------------------------- a read and a remove, call by call
\* chain_getxattr skipping a chunk that is missing when the one after it
\* is there
chain_getxattr_step_skip(xs, s) ==
  LET chunk_size == s.size
      g == sys_getxattr(xs, get_raw_xattr_name(s.name, s.i), chunk_size,
                        NoFault, s.i)
      r == g.r
      t == [s EXCEPT !.pos = s.pos + r, !.size = s.size - r, !.i = s.i + 1,
                     !.buf = s.buf \o g.data, !.chunk_size = chunk_size]
  IN IF s.i # 0 /\ r = -ENODATA
       THEN IF HasKey(xs, get_raw_xattr_name(s.name, s.i + 1))
              THEN [s EXCEPT !.i = s.i + 1, !.chunk_size = chunk_size]
            ELSE [s EXCEPT !.pc = "done", !.ret = s.pos,
                           !.chunk_size = chunk_size]
     ELSE IF r < 0
       THEN [s EXCEPT !.pc = "done", !.ret = r, !.chunk_size = chunk_size]
     ELSE IF t.size # 0 /\ r \in BlockLens THEN t
     ELSE IF chunk_size \in BlockLens
       THEN [t EXCEPT !.pc = "probe", !.ret = t.pos]
     ELSE [t EXCEPT !.pc = "done", !.ret = t.pos]

\* one round of the do-while of chain_getxattr, the locals of the call in
\* s; after the last round the call goes on to the extra probe (pc "probe")
\* or returns (pc "done")
chain_getxattr_step(xs, s) ==
  LET chunk_size == s.size
      g == sys_getxattr(xs, get_raw_xattr_name(s.name, s.i), chunk_size,
                        NoFault, s.i)
      r == g.r
      t == [s EXCEPT !.pos = s.pos + r, !.size = s.size - r, !.i = s.i + 1,
                     !.buf = s.buf \o g.data, !.chunk_size = chunk_size]
  IN IF s.i # 0 /\ r = -ENODATA
       THEN [s EXCEPT !.pc = "done", !.ret = s.pos, !.chunk_size = chunk_size]
     ELSE IF r < 0
       THEN [s EXCEPT !.pc = "done", !.ret = r, !.chunk_size = chunk_size]
     ELSE IF t.size # 0 /\ r \in BlockLens THEN t
     ELSE IF chunk_size \in BlockLens
       THEN [t EXCEPT !.pc = "probe", !.ret = t.pos]
     ELSE [t EXCEPT !.pc = "done", !.ret = t.pos]

\* the extra probe of chain_getxattr
chain_getxattr_probe_step(xs, s) ==
  LET r == sys_getxattr(xs, get_raw_xattr_name(s.name, s.i), 0, NoFault, s.i).r
  IN [s EXCEPT !.pc = "done", !.ret = IF r > 0 THEN -ERANGE ELSE s.ret]

\* one round of the do-while of chain_removexattr, the locals of the call
\* in m
chain_removexattr_step(xs, m) ==
  LET r == sys_removexattr(xs, get_raw_xattr_name(m.name, m.i), NoFault, m.i)
  IN IF m.i = 0 /\ r.r < 0
       THEN [rm |-> [m EXCEPT !.pc = "done", !.ret = r.r], xs |-> r.xs]
     ELSE IF r.r >= 0
       THEN [rm |-> [m EXCEPT !.i = m.i + 1], xs |-> r.xs]
     ELSE [rm |-> [m EXCEPT !.pc = "done", !.i = m.i + 1, !.ret = 0],
           xs |-> r.xs]

\* a thread calls chain_getxattr(fn, name, val, size) with a size that is
\* at least the length the probe gave when the file was as at the start
RdStart ==
  /\ rd.pc = "idle"
  /\ \E size \in Capacities :
       /\ size > 0
       /\ size >= getxattr_len(old, NameA, NoFault).ret
       /\ rd' = [IdleRd EXCEPT !.pc = "loop", !.name = NameA, !.cap = size,
                               !.size = size]
  /\ UNCHANGED <<xattrs, old, call, ret, buf, bp, calls, is_first, past, rm>>

RdGet ==
  /\ rd.pc = "loop"
  /\ rd' = chain_getxattr_step(xattrs, rd)
  /\ UNCHANGED <<xattrs, old, call, ret, buf, bp, calls, is_first, past, rm>>

RdProbe ==
  /\ rd.pc = "probe"
  /\ rd' = chain_getxattr_probe_step(xattrs, rd)
  /\ UNCHANGED <<xattrs, old, call, ret, buf, bp, calls, is_first, past, rm>>

\* another thread calls chain_removexattr(fn, name)
RmStart ==
  /\ rm.pc = "idle"
  /\ rm' = [IdleRm EXCEPT !.pc = "loop", !.name = NameA]
  /\ UNCHANGED <<xattrs, old, call, ret, buf, bp, calls, is_first, past, rd>>

RmRemove ==
  /\ rm.pc = "loop"
  /\ LET m == chain_removexattr_step(xattrs, rm)
     IN /\ rm' = m.rm
        /\ xattrs' = m.xs
  /\ UNCHANGED <<old, call, ret, buf, bp, calls, is_first, past, rd>>

\* the file holds one well-formed chain, next to the chain of another name
InitConc ==
  /\ xattrs \in { c \o WriteChain(NameB, Value(1, 100),
                                   CHAIN_XATTR_SHORT_BLOCK_LEN, 0)
                   : c \in WellFormedChains(NameA, 0) }
  /\ old = xattrs
  /\ call = Call("idle", FALSE, <<>>, 0, NoEnv, TRUE, <<>>)
  /\ ret = 0
  /\ buf = <<>>
  /\ bp = <<>>
  /\ calls = 0
  /\ is_first = FALSE
  /\ past = FALSE
  /\ rd = IdleRd
  /\ rm = IdleRm

NextConc ==
  \/ RdStart
  \/ RdGet
  \/ RdProbe
  \/ RmStart
  \/ RmRemove

SpecConc == InitConc /\ [][NextConc]_vars

\* ------------------------------------------------------------------ claims
\* chunks 0 .. n-1 of a logical name are present and chunk n is not
RECURSIVE ChainCount(_, _, _)
ChainCount(xs, name, i) ==
  IF HasKey(xs, get_raw_xattr_name(name, i))
    THEN ChainCount(xs, name, i + 1) ELSE i

RECURSIVE ChainValue(_, _, _)
\* the chunks from index i up to the first missing index, concatenated
ChainValue(xs, name, i) ==
  IF HasKey(xs, get_raw_xattr_name(name, i))
    THEN ValOf(xs, get_raw_xattr_name(name, i)) \o ChainValue(xs, name, i + 1)
  ELSE <<>>

ChunkLen(xs, name, i) == Len(ValOf(xs, get_raw_xattr_name(name, i)))

\* chunks 0 .. n-1 all of one block size except a possibly shorter last one
WellFormedChain(xs, name) ==
  LET n == ChainCount(xs, name, 0)
  IN /\ n >= 1
     /\ \E b \in BlockLens :
          \A i \in 0..(n - 1) :
            IF i < n - 1 THEN ChunkLen(xs, name, i) = b
            ELSE ChunkLen(xs, name, i) <= b

TotalLen(xs, name) == Len(ChainValue(xs, name, 0))

\* the last call was a bounded read (either addressing) with no primitive
\* failing other than by the rules of the store
ReadDone == call.op = "getxattr" /\ call.env.flt = NoFault

\* C1: on a well-formed chain of total length L a bounded read with a
\* capacity c, 0 < c < L, returns -ERANGE, whether or not c is a multiple of
\* a block size.
C1_ShortCapacityIsERANGE ==
  (/\ ReadDone
   /\ WellFormedChain(old, call.name)
   /\ 0 < call.size
   /\ call.size < TotalLen(old, call.name))
  => ret = -ERANGE

\* a read of exactly two short blocks of a longer chain of short blocks
C1_Witness ==
  /\ ReadDone
  /\ WellFormedChain(old, call.name)
  /\ call.size = 2 * CHAIN_XATTR_SHORT_BLOCK_LEN
  /\ ChunkLen(old, call.name, 0) = CHAIN_XATTR_SHORT_BLOCK_LEN
  /\ call.size < TotalLen(old, call.name)
  /\ ret = -ERANGE

\* C2: on a well-formed chain of total length L > 0 a bounded read with a
\* capacity c >= L returns L and the buffer holds the chunks in index order.
C2_LargeCapacityReadsAll ==
  (/\ ReadDone
   /\ WellFormedChain(old, call.name)
   /\ TotalLen(old, call.name) > 0
   /\ call.size >= TotalLen(old, call.name))
  => /\ ret = TotalLen(old, call.name)
     /\ Len(buf) >= ret
     /\ SubSeq(buf, 1, ret) = ChainValue(old, call.name, 0)

\* a read with c = L of a chain of exactly two full blocks
C2_Witness ==
  /\ ReadDone
  /\ WellFormedChain(old, call.name)
  /\ ChainCount(old, call.name, 0) = 2
  /\ TotalLen(old, call.name) = 2 * CHAIN_XATTR_MAX_BLOCK_LEN
  /\ call.size = TotalLen(old, call.name)
  /\ ret = call.size
  /\ buf = ChainValue(old, call.name, 0)

\* the length-only probe of the addressing the last call used
LenProbe(xs, name) ==
  IF call.fd THEN chain_fgetxattr_len(xs, name, NoFault).ret
  ELSE getxattr_len(xs, name, NoFault).ret

\* C3: the length-only probe of a well-formed chain returns its total length,
\* a bounded read with capacity 0 returns what the probe returns, and both
\* return the primitive's not-found error when chunk 0 is absent.
C3_LengthProbe ==
  (ReadDone /\ call.size = 0)
  => /\ WellFormedChain(old, call.name)
          => /\ ret = TotalLen(old, call.name)
             /\ LenProbe(old, call.name) = TotalLen(old, call.name)
     /\ ~HasKey(old, get_raw_xattr_name(call.name, 0))
          => /\ ret = -ENODATA
             /\ LenProbe(old, call.name) = -ENODATA

\* a probe of a chain of three or more short blocks
C3_Witness ==
  /\ ReadDone
  /\ call.size = 0
  /\ WellFormedChain(old, call.name)
  /\ ChainCount(old, call.name, 0) >= 3
  /\ ChunkLen(old, call.name, 0) = CHAIN_XATTR_SHORT_BLOCK_LEN
  /\ ret = TotalLen(old, call.name)

\* the chain of a name is what the write path leaves for its value with the
\* block size the chunk-size policy gives
PolicyChain(xs, name) ==
  LET v == ChainValue(xs, name, 0)
      w == WriteChain(name, v, get_xattr_block_size(Len(v)), 0)
  IN /\ ChainCount(xs, name, 0) = Len(w)
     /\ \A j \in 1..Len(w) : ValOf(xs, w[j].key) = w[j].val

BufDone == call.op = "getxattr_buf" /\ call.env.flt = NoFault

\* C4: for a value of length L stored with the block size of the chunk-size
\* policy, whatever L, the growing-buffer read returns L and the buffer it
\* hands back holds exactly the L bytes of the value.
C4_GrowingReadRoundTrip ==
  (BufDone /\ ~call.bp_null /\ PolicyChain(old, call.name))
  => /\ ret = TotalLen(old, call.name)
     /\ bp = ChainValue(old, call.name, 0)

\* C5 as stated: reading an absent attribute with the growing buffer gives
\* an empty/zero result, not an error.
C5_AbsentIsZero ==
  (BufDone /\ ~HasKey(old, get_raw_xattr_name(call.name, 0)))
  => ret = 0

\* C5 as amended: reading an absent attribute with the growing buffer
\* returns the primitive's not-found error and leaves *bp as it was; 0 is
\* returned only for an attribute that exists.
C5_AbsentIsENODATA ==
  /\ (BufDone /\ ~HasKey(old, get_raw_xattr_name(call.name, 0)))
       => (ret = -ENODATA /\ bp = call.bp_in)
  /\ (BufDone /\ ret = 0) => HasKey(old, get_raw_xattr_name(call.name, 0))

\* a growing-buffer read of a name whose chunk 0 is absent while a higher
\* chunk is still there
C5_Witness ==
  /\ BufDone
  /\ ~HasKey(old, get_raw_xattr_name(call.name, 0))
  /\ HasKey(old, get_raw_xattr_name(call.name, 1))
  /\ ret = -ENODATA

RemoveDone == call.op = "removexattr"

\* C6: removing a name whose chunk 0 is present, no primitive remove of an
\* existing key failing, returns 0; afterwards no key of the chain (and of
\* that name, only keys beyond the first missing index) is left, and the
\* length probe of the name gives not-found.
C6_RemoveRemovesChain ==
  (/\ RemoveDone
   /\ call.env.flt = NoFault
   /\ HasKey(old, get_raw_xattr_name(call.name, 0)))
  => /\ ret = 0
     /\ \A i \in 0..Len(old) :
          HasKey(xattrs, get_raw_xattr_name(call.name, i))
            => /\ i > ChainCount(old, call.name, 0)
               /\ HasKey(old, get_raw_xattr_name(call.name, i))
     /\ LenProbe(xattrs, call.name) = -ENODATA

\* the removal of a well-formed chain of three chunks or more
C6_Witness ==
  /\ RemoveDone
  /\ call.env.flt = NoFault
  /\ WellFormedChain(old, call.name)
  /\ ChainCount(old, call.name, 0) >= 3
  /\ ret = 0
  /\ \A i \in 0..Len(old) : ~HasKey(xattrs, get_raw_xattr_name(call.name, i))

\* C7: a failing remove of chunk 0 is returned as it is, after that one
\* primitive call and with the store as it was; once chunk 0 is removed the
\* result is 0 whatever a later remove fails with.
C7_RemoveErrors ==
  RemoveDone
  => /\ call.env.flt.at = 0
          => (ret = call.env.flt.err /\ calls = 1 /\ xattrs = old)
     /\ (call.env.flt.at # 0 /\ ~HasKey(old, get_raw_xattr_name(call.name, 0)))
          => (ret = -ENODATA /\ calls = 1 /\ xattrs = old)
     /\ (call.env.flt.at # 0 /\ HasKey(old, get_raw_xattr_name(call.name, 0)))
          => ret = 0

\* the remove of chunk 1 of an existing chain fails with an injected error
C7_Witness ==
  /\ RemoveDone
  /\ call.env.flt.at = 1
  /\ HasKey(old, get_raw_xattr_name(call.name, 1))
  /\ ret = 0
  /\ calls = 2
  /\ HasKey(xattrs, get_raw_xattr_name(call.name, 1))

\* C8: translate_raw_name of get_raw_xattr_name(name, i) gives name back,
\* with is_first exactly when i = 0, for every name and every i >= 0.
C8_DecodeInvertsEncode ==
  call.op = "translate_raw_name"
  => /\ buf = call.name
     /\ ret = Len(call.name)
     /\ is_first = (call.size = 0)

\* a name holding '@' and a digit, decoded from its chunk of a two-digit index
C8_Witness ==
  /\ call.op = "translate_raw_name"
  /\ call.name = <<"a", "@", "1">>
  /\ call.size = 10
  /\ buf = call.name
  /\ ~is_first

ListDone ==
  call.op = "listxattr" /\ call.env.flt = NoFault /\ ~call.env.nomem

\* every key is get_raw_xattr_name(n, i) of some logical name
AllEncoded(xs) ==
  \A j \in 1..Len(xs) :
    \E n \in StoreNames, i \in 0..MaxLen : xs[j].key = get_raw_xattr_name(n, i)

RECURSIVE LogicalNames(_)
\* one NUL-terminated logical name per chunk-0 key, in the order of the keys
LogicalNames(xs) ==
  IF xs = <<>> THEN <<>>
  ELSE (IF \E n \in StoreNames : Head(xs).key = get_raw_xattr_name(n, 0)
          THEN (CHOOSE n \in StoreNames : Head(xs).key = get_raw_xattr_name(n, 0))
               \o <<NUL>>
        ELSE <<>>)
       \o LogicalNames(Tail(xs))

\* C9: with keys all produced by encode and a capacity that is large enough,
\* list writes one NUL-terminated logical name per chain, in the key order
\* of the primitive, and returns the bytes written.
C9_ListLogicalNames ==
  (/\ ListDone
   /\ AllEncoded(old)
   /\ call.size > 0
   /\ call.size >= Len(LogicalNames(old)))
  => /\ ret = Len(LogicalNames(old))
     /\ buf = LogicalNames(old)

\* two chains, one with a name holding '@', both of more than one chunk
C9_Witness ==
  /\ ListDone
  /\ AllEncoded(old)
  /\ ChainCount(old, NameA, 0) >= 2
  /\ ChainCount(old, NameB, 0) >= 2
  /\ buf = NameB \o <<NUL>> \o NameA \o <<NUL>>
  /\ ret = Len(buf)

\* C10: list with a capacity > 0 below the bytes the logical names need,
\* be it by one byte only, returns -ERANGE.
C10_ShortListIsERANGE ==
  (/\ ListDone
   /\ AllEncoded(old)
   /\ call.size > 0
   /\ call.size < Len(LogicalNames(old)))
  => ret = -ERANGE

\* C11: during a bounded read or a list with a capacity > 0 every byte
\* stored in the caller's buffer, the NUL after each listed name included,
\* is at an offset below the capacity.
C11_WritesWithinCapacity ==
  (call.op \in {"getxattr", "listxattr"} /\ call.size > 0)
  => Len(buf) <= call.size

\* C12: when the primitive list succeeds, list with capacity 0 returns twice
\* the bytes of the physical keys, and list called again on the unchanged
\* store with that capacity (when it is not 0) never returns -ERANGE.
C12_ListSizing ==
  ListDone
  => /\ call.size = 0 => ret = 2 * Len(KeyStream(old))
     /\ (call.size > 0 /\ call.size = 2 * Len(KeyStream(old)))
          => ret # -ERANGE

\* no key of the file ends in a lone '@'
NoLoneEsc(xs) ==
  \A j \in 1..Len(xs) :
    ~translate_raw_name(xs[j].key \o <<NUL>>, 1).past

\* C12 on the files C15's lone '@' does not touch
ListSizing_NoLoneEsc ==
  (ListDone /\ NoLoneEsc(old))
  => /\ call.size = 0 => ret = 2 * Len(KeyStream(old))
     /\ (call.size > 0 /\ call.size = 2 * Len(KeyStream(old)))
          => ret # -ERANGE

\* C13: in the length-only probe and in the bounded read (its loop and its
\* extra probe) a primitive get that fails at a chunk index > 0 with an error
\* other than not-found makes the call return that error, never a partial
\* total or byte count.
C13_GetErrorsPropagate ==
  (/\ call.op = "getxattr"
   /\ call.env.flt.at >= 1
   /\ calls > call.env.flt.at)
  => ret = call.env.flt.err

\* C14: when a primitive list call fails with error e, list returns e as it
\* is, whatever the capacity, capacity 0 included.
C14_ListErrorsUnchanged ==
  call.op = "listxattr"
  => /\ call.env.flt.at = 0 => ret = call.env.flt.err
     /\ (call.env.flt.at = 1 /\ call.size > 0) => ret = call.env.flt.err

\* C14 for the capacities other than 0
ListErrorsUnchanged_NonZero ==
  (call.op = "listxattr" /\ call.size > 0 /\ call.env.flt.at \in {0, 1})
  => ret = call.env.flt.err

RECURSIVE SuffixPos(_, _)
\* the position, from p on, of the first '@' of a key that is not the first
\* of a pair "@@" (followed by another character or by the end of the
\* key); 0 when the key has none
SuffixPos(key, p) ==
  IF p > Len(key) THEN 0
  ELSE IF key[p] # EscChar THEN SuffixPos(key, p + 1)
  ELSE IF p + 1 <= Len(key) /\ key[p + 1] = EscChar THEN SuffixPos(key, p + 2)
  ELSE p

RECURSIVE Unescaped(_)
\* a string of characters and pairs "@@" with every pair taken as one '@'
Unescaped(esc) ==
  IF esc = <<>> THEN <<>>
  ELSE IF Head(esc) = EscChar THEN <<EscChar>> \o Unescaped(Tail(Tail(esc)))
  ELSE <<Head(esc)>> \o Unescaped(Tail(esc))

RawKeyDone == call.op = "translate_raw_key"

\* C15: decoding a physical key in which a '@' is followed by anything but
\* '@', the end of the key included, stops copying at that '@', sets
\* is_first to false and never reads past the key's terminating NUL.
C15_SuffixStopsDecode ==
  (RawKeyDone /\ SuffixPos(call.name, 1) > 0)
  => /\ ~is_first
     /\ ~past
     /\ buf = Unescaped(SubSeq(call.name, 1, SuffixPos(call.name, 1) - 1))
     /\ ret = Len(buf)

\* C15 for the keys in which the '@' is followed by another character
SuffixStopsDecode_NotAtEnd ==
  (/\ RawKeyDone
   /\ SuffixPos(call.name, 1) > 0
   /\ SuffixPos(call.name, 1) < Len(call.name))
  => /\ ~is_first
     /\ ~past
     /\ buf = Unescaped(SubSeq(call.name, 1, SuffixPos(call.name, 1) - 1))
     /\ ret = Len(buf)

\* the bounded read that has just returned issued the extra zero-length probe
ReadProbed ==
  IF call.fd
    THEN chain_fgetxattr(old, call.name, call.size, call.env.flt).probed
  ELSE chain_getxattr(old, call.name, call.size, call.env.flt).probed

\* a chunk 0 shorter than a block size that fits the capacity is the last
\* chunk read, and its length is what the read returns
ShortFirstChunkReturnsCount ==
  (/\ ReadDone
   /\ call.size > 0
   /\ HasKey(old, get_raw_xattr_name(call.name, 0))
   /\ ChunkLen(old, call.name, 0) \notin BlockLens
   /\ ChunkLen(old, call.name, 0) <= call.size)
  => ret = ChunkLen(old, call.name, 0)

\* C16: whatever the store holds, the bounded read issues the extra probe
\* (and so can turn its result into -ERANGE) only when the last chunk it read
\* had the length of one of the two block sizes; after a shorter last chunk
\* it returns the bytes read, also when the capacity is a block size.
C16_ProbeOnlyAfterFullBlock ==
  /\ (ReadDone /\ call.size > 0 /\ ReadProbed)
       => ChunkLen(old, call.name, calls - 2) \in BlockLens
  /\ ShortFirstChunkReturnsCount


\* C16 on well-formed chains: the result is as if the probe was issued only
\* after a chunk of a block size
ProbeHarmless_WellFormed ==
  (/\ ReadDone
   /\ call.size > 0
   /\ WellFormedChain(old, call.name)
   /\ ReadProbed
   /\ ChunkLen(old, call.name, calls - 2) \notin BlockLens)
  => ret = TotalLen(old, call.name)

\* rounds of the do-while loop the last read made: its primitive calls
\* without the extra probe
ReadRounds == calls - (IF call.size > 0 /\ ReadProbed THEN 1 ELSE 0)

\* the length probe, the bounded read and remove stop after at most
\* (consecutive existing chunk indices + 1) rounds, and the growing-buffer
\* read doubles its capacity from the initial one and returns something
\* other than -ERANGE
RoundsBounded ==
  /\ call.op = "getxattr"
       => ReadRounds <= ChainCount(old, call.name, 0) + 1
  /\ RemoveDone => calls <= ChainCount(old, call.name, 0) + 1
  /\ call.op = "getxattr_buf"
       => /\ calls >= 1
          /\ call.size = GETXATTR_BUF_INITIAL * 2 ^ (calls - 1)
          /\ ret # -ERANGE

\* every capacity the growing-buffer read gave up on was below the chain's
\* total length
GrowingStopsAtTotal ==
  (call.op = "getxattr_buf" /\ calls > 1)
  => call.size \div 2 < TotalLen(old, call.name)

\* C17: on a store that does not change during the call every operation
\* terminates: length probe, bounded read and remove after at most
\* (consecutive existing chunk indices + 1) rounds, the growing-buffer read
\* after finitely many doublings, retrying on -ERANGE only and returning
\* once its capacity is at least the chain's total length.
C17_Terminates == RoundsBounded /\ GrowingStopsAtTotal

\* the last part of C17 on well-formed chains
GrowingStopsAtTotal_WellFormed ==
  (call.op = "getxattr_buf" /\ calls > 1 /\ WellFormedChain(old, call.name))
  => call.size \div 2 < TotalLen(old, call.name)

\* C18: remove of a logical name n removes only physical keys
\* get_raw_xattr_name(n, i); every other key, and so every chunk of any
\* other name (one that looks like a chunk key of n too), is left as it was,
\* whatever remove returns.
C18_RemoveFrame ==
  RemoveDone
  => /\ \A j \in 1..Len(old) :
          \/ /\ HasKey(xattrs, old[j].key)
             /\ ValOf(xattrs, old[j].key) = old[j].val
          \/ \E i \in 0..Len(old) :
               old[j].key = get_raw_xattr_name(call.name, i)
     /\ \A j \in 1..Len(xattrs) : HasKey(old, xattrs[j].key)
     /\ \A m \in StoreNames \ {call.name} :
          /\ ChainCount(xattrs, m, 0) = ChainCount(old, m, 0)
          /\ ChainValue(xattrs, m, 0) = ChainValue(old, m, 0)

\* the chain of "a@1" is removed while "a" has a chunk 1, whose key "a@1"
\* differs from the key "a@@1" of the removed name only by the escaping
C18_Witness ==
  /\ RemoveDone
  /\ call.name = NameB
  /\ ret = 0
  /\ HasKey(old, get_raw_xattr_name(NameB, 0))
  /\ ~HasKey(xattrs, get_raw_xattr_name(NameB, 0))
  /\ ChainCount(old, NameA, 0) >= 2
  /\ ChainValue(xattrs, NameA, 0) = ChainValue(old, NameA, 0)

\* C19: two-step sizing.  On a store that does not change between the calls,
\* whatever chain it holds, when the length probe of a name returns N > 0 a
\* bounded read of the name with capacity N returns N.
C19_TwoStepSizing ==
  (/\ ReadDone
   /\ call.size > 0
   /\ call.size = LenProbe(old, call.name))
  => /\ ret = call.size
     /\ Len(buf) = ret

\* a read sized by the probe of a chain that is not well-formed and ends on
\* a block boundary, so that the extra probe is issued
C19_Witness ==
  /\ ReadDone
  /\ call.size > 0
  /\ call.size = LenProbe(old, call.name)
  /\ ~WellFormedChain(old, call.name)
  /\ ChainCount(old, call.name, 0) >= 2
  /\ ReadProbed
  /\ ret = call.size

RECURSIVE ChainPrefix(_, _, _)
\* chunks 0 .. k-1 of a name, concatenated
ChainPrefix(xs, name, k) ==
  IF k = 0 THEN <<>>
  ELSE ChainPrefix(xs, name, k - 1)
       \o ValOf(xs, get_raw_xattr_name(name, k - 1))

\* C20: a bounded read with a capacity of at least the total length L and a
\* remove of the same well-formed chain run side by side, interleaved
\* primitive call by primitive call, no writer: a result >= 0 of the read is
\* L or the length of a leading run of whole chunks 0 .. k-1, and the buffer
\* holds the bytes of exactly these chunks.
C20_ReadSeesLeadingChunks ==
  (rd.pc = "done" /\ rd.ret >= 0)
  => \E k \in 1..ChainCount(old, rd.name, 0) :
       /\ rd.ret = Len(ChainPrefix(old, rd.name, k))
       /\ rd.buf = ChainPrefix(old, rd.name, k)

\* the read got two chunks or more and then found the next one removed
C20_Witness ==
  /\ rd.pc = "done"
  /\ rm.pc # "idle"
  /\ rd.i >= 2
  /\ rd.ret > 0
  /\ rd.ret < TotalLen(old, rd.name)
  /\ rd.buf = ChainPrefix(old, rd.name, rd.i)

\* run alone, the call-by-call read returns what chain_getxattr returns
StepsAgree ==
  (rd.pc = "done" /\ rm.pc = "idle")
  => /\ rd.ret = chain_getxattr(xattrs, rd.name, rd.cap, NoFault).ret
     /\ rd.buf = chain_getxattr(xattrs, rd.name, rd.cap, NoFault).buf


=============================================================================
